---- MODULE Spec2Model ----
(***************************************************************************)
(* A model of the localLLM indexing / retrieval pipeline.                  *)
(*                                                                         *)
(*   src/utils/indexer.py    index_documents, read_file_with_fallback,     *)
(*                           create_filenames_mapping                      *)
(*   src/utils/retriever.py  retrieve_documents, analyze_chunk_with_llm    *)
(*                                                                         *)
(* Strings that the code takes apart or puts together (file names, judge   *)
(* responses, decimal ordinals) are sequences of one-character strings.    *)
(* File contents are sequences of byte values.                             *)
(*                                                                         *)
(* Three specifications share the module:                                  *)
(*   SpecIndex  one index_documents run over a folder                      *)
(*   Spec       retrieve_documents calls made one after the other          *)
(*   SpecConc   two callers of retrieve_documents running concurrently     *)
(***************************************************************************)
EXTENDS Integers, Sequences, FiniteSets, TLC

VARIABLES
    \* ---- index_documents ----
    folder,             \* os.listdir(folder_path): the entries, in listing order
    index_path,         \* the index_path argument: its kind on disk
    ipc,                \* position of the run
    i,                  \* 1-based position of the for loop in the listing
    docs,               \* local list docs
    filenames,          \* local list filenames
    index,              \* the faiss index: the vectors added, in order
    filenames_mapping,  \* local dict filenames_mapping
    disk,               \* what the run has written under index_path
    result,             \* "running" | "returned" | "raised"
    failedAt,           \* the step whose exception reached the outer handler
    log,                \* names of the entries logged as unreadable
    \* ---- retrieve_documents ----
    pc,                 \* per caller: position in retrieve_documents
    indices,            \* per caller: indices[0], the ordinals the search returned
    pos,                \* per caller: 1-based position of the for loop
    files,              \* per caller: local list files
    judged,             \* per caller: the judge's answers so far, <<idx, text>>
    ret,                \* per caller: the value returned
    outcome,            \* per caller: "none" | "returned" | "raised"
    excepted,           \* per caller: the outer handler ran
    injected,           \* per caller: the exception came from a collaborator
    startdir,           \* per caller: retrieved_documents as it was at the call
    outdir,             \* retrieved_documents: destination name -> bytes
    calls               \* number of retrieve_documents calls started

ivars == <<folder, index_path, ipc, i, docs, filenames, index,
           filenames_mapping, disk, result, failedAt, log>>
rvars == <<pc, indices, pos, files, judged, ret, outcome, excepted,
           injected, startdir, outdir, calls>>
vars == <<ivars, rvars>>

\* ------------------------------------------------------------------
\* Bounds of the model
\* ------------------------------------------------------------------
MaxFiles == 3       \* entries in the indexed folder
MaxK == 4           \* largest k passed to retrieve_documents
MaxKConc == 2       \* largest k when two callers run at once
MaxCalls == 2       \* retrieve_documents calls in one behaviour
MaxCallsConc == 3   \* the same when two callers run at once

\* ------------------------------------------------------------------
\* Strings
\* ------------------------------------------------------------------
Digits == <<"0", "1", "2", "3", "4", "5", "6", "7", "8", "9">>

RECURSIVE NatToStr(_)
NatToStr(n) ==
    IF n < 10 THEN <<Digits[n + 1]>>
    ELSE NatToStr(n \div 10) \o <<Digits[(n % 10) + 1]>>

\* str(n) / f"{n}" of an integer
IntToStr(n) == IF n < 0 THEN <<"-">> \o NatToStr(-n) ELSE NatToStr(n)

\* ------------------------------------------------------------------
\* Decoding, as open(path, 'r', encoding=...).read() does it
\* ------------------------------------------------------------------
DecodeError == [ok |-> FALSE, text |-> <<>>]

\* bytes that cp1252 leaves undefined: decoding them raises UnicodeDecodeError
Cp1252Undefined == {129, 141, 143, 144, 157}

Cp1252High ==
    [b \in (128..159) \ Cp1252Undefined |->
        CASE b = 128 -> 8364 [] b = 130 -> 8218 [] b = 131 -> 402
          [] b = 132 -> 8222 [] b = 133 -> 8230 [] b = 134 -> 8224
          [] b = 135 -> 8225 [] b = 136 -> 710  [] b = 137 -> 8240
          [] b = 138 -> 352  [] b = 139 -> 8249 [] b = 140 -> 338
          [] b = 142 -> 381  [] b = 145 -> 8216 [] b = 146 -> 8217
          [] b = 147 -> 8220 [] b = 148 -> 8221 [] b = 149 -> 8226
          [] b = 150 -> 8211 [] b = 151 -> 8212 [] b = 152 -> 732
          [] b = 153 -> 8482 [] b = 154 -> 353  [] b = 155 -> 8250
          [] b = 156 -> 339  [] b = 158 -> 382  [] b = 159 -> 376]

RECURSIVE Utf8Decode(_)
Utf8Decode(b) ==
    IF b = <<>> THEN [ok |-> TRUE, text |-> <<>>]
    ELSE IF b[1] < 128 THEN
        LET r == Utf8Decode(Tail(b))
        IN  IF r.ok THEN [ok |-> TRUE, text |-> <<b[1]>> \o r.text] ELSE DecodeError
    ELSE IF b[1] \in 194..223 /\ Len(b) >= 2 /\ b[2] \in 128..191 THEN
        LET r == Utf8Decode(Tail(Tail(b)))
        IN  IF r.ok
            THEN [ok |-> TRUE, text |-> <<(b[1] - 192) * 64 + (b[2] - 128)>> \o r.text]
            ELSE DecodeError
    ELSE DecodeError

\* bytes.decode(enc) for the codecs the interpreter knows; the result is the
\* sequence of code points, or DecodeError for a UnicodeDecodeError
Decode(enc, b) ==
    CASE enc = "ascii" ->
            IF \E n \in 1..Len(b) : b[n] >= 128 THEN DecodeError
            ELSE [ok |-> TRUE, text |-> b]
      [] enc = "utf-8" -> Utf8Decode(b)
      [] enc = "Windows-1252" ->
            IF \E n \in 1..Len(b) : b[n] \in Cp1252Undefined THEN DecodeError
            ELSE [ok |-> TRUE,
                  text |-> [n \in 1..Len(b) |->
                              IF b[n] \in 128..159 THEN Cp1252High[b[n]] ELSE b[n]]]
      [] enc = "latin1" -> [ok |-> TRUE, text |-> b]

\* the codec names codecs.lookup resolves
KnownCodecs == {"ascii", "utf-8", "Windows-1252", "latin1"}

\* encoding=None: open() uses the locale's preferred encoding
LocaleEncoding == "utf-8"

\* text mode: universal newlines, "\r\n" and "\r" read as "\n"
RECURSIVE Newlines(_)
Newlines(t) ==
    IF t = <<>> THEN <<>>
    ELSE IF t[1] = 13 THEN
        IF Len(t) >= 2 /\ t[2] = 10 THEN <<10>> \o Newlines(Tail(Tail(t)))
        ELSE <<10>> \o Newlines(Tail(t))
    ELSE <<t[1]>> \o Newlines(Tail(t))

\* read_file_with_fallback(file_path) on a folder entry:
\*   [ok |-> TRUE, text |-> the string] or [ok |-> FALSE, err |-> the exception]
ReadFileWithFallback(e) ==
    IF e.kind # "file" THEN [ok |-> FALSE, text |-> <<>>, err |-> "OSError"]
    ELSE
        LET detected_encoding == e.detected
            enc == IF detected_encoding = "None" THEN LocaleEncoding
                   ELSE detected_encoding
        IN  IF enc \notin KnownCodecs
            THEN [ok |-> FALSE, text |-> <<>>, err |-> "LookupError"]
            ELSE
                LET first == Decode(enc, e.bytes)
                IN  IF first.ok
                    THEN [ok |-> TRUE, text |-> Newlines(first.text), err |-> "none"]
                    ELSE [ok |-> TRUE,
                          text |-> Newlines(Decode("latin1", e.bytes).text),
                          err |-> "none"]

\* ------------------------------------------------------------------
\* The indexed folder
\* ------------------------------------------------------------------
\* What a folder can hold.  kind: a readable regular file, a sub-directory,
\* or a file the process may not open.  detected: chardet.detect(bytes)
\* ['encoding'] for the file's bytes ("None" for no guess).
EntryPool ==
    { [name |-> <<"a", ".", "t", "x", "t">>, kind |-> "file",
       bytes |-> <<65, 13, 10>>, detected |-> "ascii"],
      [name |-> <<"b", ".", "t", "x", "t">>, kind |-> "file",
       bytes |-> <<233>>, detected |-> "Windows-1252"],
      [name |-> <<"c", ".", "t", "x", "t">>, kind |-> "file",
       bytes |-> <<129>>, detected |-> "Windows-1252"],
      [name |-> <<"d", ".", "d", "a", "t">>, kind |-> "file",
       bytes |-> <<254, 255, 0, 0>>, detected |-> "X-ISO-10646-UCS-4-3412"],
      [name |-> <<"e", ".", "t", "x", "t">>, kind |-> "file",
       bytes |-> <<>>, detected |-> "None"],
      [name |-> <<"f", ".", "t", "x", "t">>, kind |-> "file",
       bytes |-> <<195, 169>>, detected |-> "utf-8"],
      [name |-> <<"s", "u", "b">>, kind |-> "dir",
       bytes |-> <<>>, detected |-> "None"],
      [name |-> <<"k", "e", "y">>, kind |-> "noperm",
       bytes |-> <<65>>, detected |-> "ascii"] }

\* os.listdir: any order, every name once
Listings ==
    UNION { { s \in [1..n -> EntryPool] :
                \A a, b \in 1..n : a # b => s[a].name # s[b].name } :
            n \in 0..MaxFiles }

\* model.encode(docs): one vector per document, in order
Embed(text) == [vec_of |-> text]

Encode(ds) == [n \in 1..Len(ds) |-> Embed(ds[n])]

\* create_filenames_mapping(filenames)
CreateFilenamesMapping(fns) == [idx \in 0..(Len(fns) - 1) |-> fns[idx + 1]]

\* json.dump of a dict with integer keys: the keys become decimal strings
JsonDump(m) ==
    [k \in {IntToStr(idx) : idx \in DOMAIN m} |->
        m[CHOOSE idx \in DOMAIN m : IntToStr(idx) = k]]

\* os.path.isdir(index_path)
IsDir(p) == p = "dir"

\* os.path.join(index_path, 'index.faiss')
IndexFaissPath == "index_path/index.faiss"

\* os.path.join(index_path, "faiss_index_file_mapping.json")
MappingPath == "index_path/faiss_index_file_mapping.json"

NoFile == [at |-> "none", complete |-> FALSE, data |-> <<>>]

\* ------------------------------------------------------------------
\* index_documents
\* ------------------------------------------------------------------
IndexPaths == {"none", "dir", "file"}   \* no path; a directory; any other path

InitIndex ==
    /\ folder \in Listings
    /\ index_path \in IndexPaths
    /\ ipc = "read"
    /\ i = 1
    /\ docs = <<>>
    /\ filenames = <<>>
    /\ index = [built |-> FALSE, vecs |-> <<>>]
    /\ filenames_mapping = [made |-> FALSE, map |-> <<>>]
    /\ disk = [index |-> NoFile, mapping |-> NoFile]
    /\ result = "running"
    /\ failedAt = "none"
    /\ log = <<>>

\* (mutant) the entry is recorded before it is known to be readable
AppendAlways(lst, r, x) == Append(lst, x)

\* the body of the inner try: both lists grow together, and only when
\* read_file_with_fallback returned
AppendIfRead(lst, r, x) == IF r.ok THEN Append(lst, x) ELSE lst

\* (mutant) the outer handler logs and falls through to a return
OuterHandlerSwallows == "returned"

\* the outer handler of index_documents: log, then `raise`
OuterHandlerResult == "raised"

\* an exception reaches the outer handler at step `at`
Abort(at) ==
    /\ failedAt' = at
    /\ result' = OuterHandlerResult
    /\ ipc' = "done"

\* one turn of the for loop over os.listdir(folder_path)
ReadEntry ==
    /\ ipc = "read"
    /\ i <= Len(folder)
    /\ LET e == folder[i]
           r == ReadFileWithFallback(e)
       IN  /\ docs' = AppendIfRead(docs, r, r.text)
           /\ filenames' = AppendIfRead(filenames, r, e.name)
           /\ log' = IF r.ok THEN log ELSE Append(log, e.name)
    /\ i' = i + 1
    /\ UNCHANGED rvars
    /\ UNCHANGED <<folder, index_path, ipc, index, filenames_mapping, disk,
                   result, failedAt>>

\* the loop is over
ReadDone ==
    /\ ipc = "read"
    /\ i > Len(folder)
    /\ ipc' = "embed"
    /\ UNCHANGED rvars
    /\ UNCHANGED <<folder, index_path, i, docs, filenames, index,
                   filenames_mapping, disk, result, failedAt, log>>

\* (mutant) the index itself is never written, only the mapping
AfterBuildMappingOnly(p) == IF p = "none" THEN "return" ELSE "open_mapping"

\* where the run goes once the index is built
AfterBuild(p) ==
    IF p = "none" THEN "return"
    ELSE IF IsDir(p) THEN "write_index" ELSE "open_mapping"

\* model.encode, np.array, IndexFlatL2(embeddings.shape[1]), index.add:
\* with no document the array has one dimension and shape[1] raises
EmbedAndBuild ==
    /\ ipc = "embed"
    /\ IF docs = <<>>
       THEN /\ Abort("shape")
            /\ UNCHANGED index
       ELSE /\ index' = [built |-> TRUE, vecs |-> Encode(docs)]
            /\ ipc' = AfterBuild(index_path)
            /\ UNCHANGED <<result, failedAt>>
    /\ UNCHANGED rvars
    /\ UNCHANGED <<folder, index_path, i, docs, filenames, filenames_mapping,
                   disk, log>>

\* faiss.write_index(index, index_faiss_path)
WriteIndex ==
    /\ ipc = "write_index"
    /\ disk' = [disk EXCEPT !.index =
                    [at |-> IndexFaissPath, complete |-> TRUE, data |-> index.vecs]]
    /\ ipc' = "open_mapping"
    /\ UNCHANGED rvars
    /\ UNCHANGED <<folder, index_path, i, docs, filenames, index,
                   filenames_mapping, result, failedAt, log>>

\* create_filenames_mapping, then open(mapping_path, 'w'): the open fails
\* unless index_path is a directory; it creates (or empties) the file
OpenMapping ==
    /\ ipc = "open_mapping"
    /\ filenames_mapping' = [made |-> TRUE, map |-> CreateFilenamesMapping(filenames)]
    /\ IF IsDir(index_path)
       THEN /\ disk' = [disk EXCEPT !.mapping =
                            [at |-> MappingPath, complete |-> FALSE, data |-> <<>>]]
            /\ ipc' = "dump"
            /\ UNCHANGED <<result, failedAt>>
       ELSE /\ Abort("open_mapping")
            /\ UNCHANGED disk
    /\ UNCHANGED rvars
    /\ UNCHANGED <<folder, index_path, i, docs, filenames, index, log>>

\* json.dump(filenames_mapping, f)
DumpMapping ==
    /\ ipc = "dump"
    /\ disk' = [disk EXCEPT !.mapping =
                    [at |-> MappingPath, complete |-> TRUE,
                     data |-> JsonDump(filenames_mapping.map)]]
    /\ ipc' = "return"
    /\ UNCHANGED rvars
    /\ UNCHANGED <<folder, index_path, i, docs, filenames, index,
                   filenames_mapping, result, failedAt, log>>

\* return index
ReturnIndex ==
    /\ ipc = "return"
    /\ result' = "returned"
    /\ ipc' = "done"
    /\ UNCHANGED rvars
    /\ UNCHANGED <<folder, index_path, i, docs, filenames, index,
                   filenames_mapping, disk, failedAt, log>>

\* the steps at which a collaborator (the embedding model, faiss, the file
\* system) can raise
RunSteps == {"embed", "write_index", "dump"}

\* a collaborator raises at the current step
CollaboratorRaises ==
    /\ ipc \in RunSteps
    /\ Abort(ipc)
    /\ UNCHANGED rvars
    /\ UNCHANGED <<folder, index_path, i, docs, filenames, index,
                   filenames_mapping, disk, log>>

NextIndex ==
    \/ ReadEntry
    \/ ReadDone
    \/ EmbedAndBuild
    \/ WriteIndex
    \/ OpenMapping
    \/ DumpMapping
    \/ ReturnIndex
    \/ CollaboratorRaises

\* ------------------------------------------------------------------
\* retrieve_documents: strings and paths
\* ------------------------------------------------------------------
\* str.strip() with no argument removes these from both ends
Whitespace == {" ", "\t", "\n", "\r"}

RECURSIVE LStrip(_)
LStrip(t) ==
    IF t # <<>> /\ Head(t) \in Whitespace THEN LStrip(Tail(t)) ELSE t

RECURSIVE RStrip(_)
RStrip(t) ==
    IF t # <<>> /\ t[Len(t)] \in Whitespace
    THEN RStrip(SubSeq(t, 1, Len(t) - 1)) ELSE t

Strip(t) == RStrip(LStrip(t))

UpperCase == <<"A", "B", "C", "D", "E", "F", "G", "H", "I", "J", "K", "L", "M",
               "N", "O", "P", "Q", "R", "S", "T", "U", "V", "W", "X", "Y", "Z">>
LowerCase == <<"a", "b", "c", "d", "e", "f", "g", "h", "i", "j", "k", "l", "m",
               "n", "o", "p", "q", "r", "s", "t", "u", "v", "w", "x", "y", "z">>

LowerChar(c) ==
    IF \E n \in 1..Len(UpperCase) : UpperCase[n] = c
    THEN LowerCase[CHOOSE n \in 1..Len(UpperCase) : UpperCase[n] = c]
    ELSE c

\* str.lower()
Lower(t) == [n \in 1..Len(t) |-> LowerChar(t[n])]

\* (mutant) the response is lowercased but not trimmed
AnalyzeWithoutStrip(text) == Lower(text) = <<"y", "e", "s">>

\* analyze_chunk_with_llm: the boolean it returns for the judge's response.text
AnalyzeChunkWithLlm(text) == Lower(Strip(text)) = <<"y", "e", "s">>

\* os.path.splitext(name)[-1] for a name without separators: from the last
\* dot, unless only dots precede it
SplitExt(name) ==
    LET dots == {n \in 1..Len(name) : name[n] = "."}
    IN  IF dots = {} THEN <<>>
        ELSE LET dotIndex == CHOOSE n \in dots : \A m \in dots : m <= n
             IN  IF \E m \in 1..(dotIndex - 1) : name[m] # "."
                 THEN SubSeq(name, dotIndex, Len(name))
                 ELSE <<>>

\* f"{idx}{os.path.splitext(doc_filename)[-1]}"
DestName(idx, doc_filename) == IntToStr(idx) \o SplitExt(doc_filename)

\* a path inside retrieved_documents (dest_path and relative_path name the
\* same absolute path)
RetrievedPath(name) == [dir |-> "retrieved_documents", name |-> name]

\* ------------------------------------------------------------------
\* retrieve_documents: the caller's arguments and the files around it
\* ------------------------------------------------------------------
\* the filenames_mapping argument, as index_documents builds it for a folder
\* of three documents
MappingArg ==
    [idx \in {0, 1, 2} |->
        CASE idx = 0 -> <<"a", ".", "t", "x", "t">>
          [] idx = 1 -> <<".", "e", "n", "v">>
          [] idx = 2 -> <<"c", ".", "m", "d">>]

\* uploaded_documents: name -> bytes; c.md was indexed and is no longer there
Uploaded ==
    [name \in {MappingArg[0], MappingArg[1]} |->
        IF name = MappingArg[0] THEN <<65, 10>> ELSE <<75, 61, 49>>]

\* filenames_mapping.get(idx, None), None as the empty name
MappingGet(idx) == IF idx \in DOMAIN MappingArg THEN MappingArg[idx] ELSE <<>>

\* os.path.exists(doc_path)
DocExists(doc_filename) == doc_filename \in DOMAIN Uploaded

\* an ordinal the loop goes on to judge
Resolves(idx) == MappingGet(idx) # <<>> /\ DocExists(MappingGet(idx))

\* faiss_index.search(query_embedding, k)[1][0] on an index of ntotal
\* vectors: the nearest stored vectors, no ordinal twice, and -1 for every
\* place beyond the index's size
SearchResults(k, ntotal) ==
    LET found == IF k < ntotal THEN k ELSE ntotal
    IN  { [n \in 1..k |-> IF n <= found THEN s[n] ELSE -1] :
            s \in { t \in [1..found -> 0..(ntotal - 1)] :
                      \A a, b \in 1..found : a # b => t[a] # t[b] } }

\* the faiss_index argument: the index built with the mapping, or an index
\* that holds no vector
IndexSizes == {0, Cardinality(DOMAIN MappingArg)}

\* what the judge may answer
Responses ==
    { <<"Y", "e", "s">>, <<" ", "y", "e", "s", " ">>, <<"Y", "E", "S">>,
      <<"n", "o">>, <<>>,
      <<"y", "e", "s", " ", "p", "l", "e", "a", "s", "e">>,
      <<"y", "e", "s", "\n">>, <<"y", " ", "e", "s">> }

\* the answers kept when two callers run at once
ShortResponses == { <<"y", "e", "s">>, <<"n", "o">> }

\* every name retrieve_documents can write in retrieved_documents
DestNames == { DestName(idx, MappingArg[idx]) : idx \in DOMAIN MappingArg }

\* no file at that name
Absent == <<-1>>

Callers == {1, 2}

\* ------------------------------------------------------------------
\* retrieve_documents
\* ------------------------------------------------------------------
InitRetrieve ==
    /\ pc = [p \in Callers |-> "idle"]
    /\ indices = [p \in Callers |-> <<>>]
    /\ pos = [p \in Callers |-> 1]
    /\ files = [p \in Callers |-> <<>>]
    /\ judged = [p \in Callers |-> <<>>]
    /\ ret = [p \in Callers |-> <<>>]
    /\ outcome = [p \in Callers |-> "none"]
    /\ excepted = [p \in Callers |-> FALSE]
    /\ injected = [p \in Callers |-> FALSE]
    /\ startdir = [p \in Callers |-> [d \in DestNames |-> Absent]]
    /\ outdir = [d \in DestNames |-> Absent]
    /\ calls = 0

\* (mutant) the handler returns what had been collected so far
HandlerReturnsCollected(fs) == fs

\* `except Exception`: what the call returns
HandlerReturn(fs) == <<>>

\* an exception reaches the handler of retrieve_documents; inj: it was raised
\* by a collaborator rather than by the state of retrieved_documents
Except(p, inj) ==
    /\ excepted' = [excepted EXCEPT ![p] = TRUE]
    /\ injected' = [injected EXCEPT ![p] = inj]
    /\ ret' = [ret EXCEPT ![p] = HandlerReturn(files[p])]
    /\ outcome' = [outcome EXCEPT ![p] = "returned"]
    /\ pc' = [pc EXCEPT ![p] = "done"]

\* a caller enters retrieve_documents (at most maxcalls calls are made)
Call(p, maxcalls) ==
    /\ pc[p] \in {"idle", "done"}
    /\ calls < maxcalls
    /\ calls' = calls + 1
    /\ pc' = [pc EXCEPT ![p] = "encode"]
    /\ indices' = [indices EXCEPT ![p] = <<>>]
    /\ pos' = [pos EXCEPT ![p] = 1]
    /\ files' = [files EXCEPT ![p] = <<>>]
    /\ judged' = [judged EXCEPT ![p] = <<>>]
    /\ ret' = [ret EXCEPT ![p] = <<>>]
    /\ outcome' = [outcome EXCEPT ![p] = "none"]
    /\ excepted' = [excepted EXCEPT ![p] = FALSE]
    /\ injected' = [injected EXCEPT ![p] = FALSE]
    /\ startdir' = [startdir EXCEPT ![p] = outdir]
    /\ UNCHANGED ivars
    /\ UNCHANGED outdir

\* model.encode([query]); np.array(...).astype('float32')
EncodeQuery(p) ==
    /\ pc[p] = "encode"
    /\ pc' = [pc EXCEPT ![p] = "search"]
    /\ UNCHANGED ivars
    /\ UNCHANGED <<indices, pos, files, judged, ret, outcome, excepted,
                   injected, startdir, outdir, calls>>

\* faiss_index.search(query_embedding, k), for the index and the k (at most
\* maxk) the caller passed
Search(p, maxk) ==
    /\ pc[p] = "search"
    /\ \E k \in 1..maxk : \E ntotal \in IndexSizes :
       \E found \in SearchResults(k, ntotal) :
          indices' = [indices EXCEPT ![p] = found]
    /\ pc' = [pc EXCEPT ![p] = "setup"]
    /\ UNCHANGED ivars
    /\ UNCHANGED <<pos, files, judged, ret, outcome, excepted, injected,
                   startdir, outdir, calls>>

\* files = []; os.makedirs(..., exist_ok=True); load_model(model_name)
Setup(p) ==
    /\ pc[p] = "setup"
    /\ files' = [files EXCEPT ![p] = <<>>]
    /\ pc' = [pc EXCEPT ![p] = "loop"]
    /\ UNCHANGED ivars
    /\ UNCHANGED <<indices, pos, judged, ret, outcome, excepted, injected,
                   startdir, outdir, calls>>

\* (mutant) `break` instead of falling through to the next ordinal
AfterSkipBreaks(at, n) == n + 1

\* the loop position after an ordinal that has no document
AfterSkip(at, n) == at + 1

\* the head of one turn of `for idx in indices[0]`: the lookup in the mapping
\* and os.path.exists(doc_path); the two else branches only print
LoopHead(p) ==
    /\ pc[p] = "loop"
    /\ pos[p] <= Len(indices[p])
    /\ LET idx == indices[p][pos[p]]
           doc_filename == MappingGet(idx)
       IN  IF doc_filename # <<>> /\ DocExists(doc_filename)
           THEN /\ pc' = [pc EXCEPT ![p] = "exists_dest"]
                /\ UNCHANGED pos
           ELSE /\ pos' = [pos EXCEPT ![p] = AfterSkip(pos[p], Len(indices[p]))]
                /\ UNCHANGED pc
    /\ UNCHANGED ivars
    /\ UNCHANGED <<indices, files, judged, ret, outcome, excepted, injected,
                   startdir, outdir, calls>>

\* the ordinal and destination of the turn in progress
CurIdx(p) == indices[p][pos[p]]
CurDest(p) == DestName(CurIdx(p), MappingGet(CurIdx(p)))

\* (mutant) an existing destination is left for the write to replace
AfterDestCheckKeeps(present) == "read"

\* where the turn goes after os.path.exists(dest_path)
AfterDestCheck(present) == IF present THEN "remove" ELSE "read"

\* if os.path.exists(dest_path):
CheckDest(p) ==
    /\ pc[p] = "exists_dest"
    /\ pc' = [pc EXCEPT ![p] = AfterDestCheck(outdir[CurDest(p)] # Absent)]
    /\ UNCHANGED ivars
    /\ UNCHANGED <<indices, pos, files, judged, ret, outcome, excepted,
                   injected, startdir, outdir, calls>>

\* os.remove(dest_path): FileNotFoundError when the file is gone
Remove(p) ==
    /\ pc[p] = "remove"
    /\ IF outdir[CurDest(p)] # Absent
       THEN /\ outdir' = [outdir EXCEPT ![CurDest(p)] = Absent]
            /\ pc' = [pc EXCEPT ![p] = "read"]
            /\ UNCHANGED <<ret, outcome, excepted, injected>>
       ELSE /\ Except(p, FALSE)
            /\ UNCHANGED outdir
    /\ UNCHANGED ivars
    /\ UNCHANGED <<indices, pos, files, judged, startdir, calls>>

\* with open(doc_path, 'rb') as f: content = f.read()
ReadDoc(p) ==
    /\ pc[p] = "read"
    /\ pc' = [pc EXCEPT ![p] = "judge"]
    /\ UNCHANGED ivars
    /\ UNCHANGED <<indices, pos, files, judged, ret, outcome, excepted,
                   injected, startdir, outdir, calls>>

\* (mutant) the `continue` for a rejected document is missing
AfterJudgeAlwaysWrites(is_relevant) == "write"

\* where the turn goes after analyze_chunk_with_llm
AfterJudge(is_relevant) == IF is_relevant THEN "write" ELSE "loop"

\* analyze_chunk_with_llm(model, content, query), the judge answering one of
\* `answers`; `continue` when not relevant
Judge(p, answers) ==
    /\ pc[p] = "judge"
    /\ \E text \in answers :
          LET is_relevant == AnalyzeChunkWithLlm(text)
              next == AfterJudge(is_relevant)
          IN  /\ judged' = [judged EXCEPT ![p] = Append(@, <<CurIdx(p), text>>)]
              /\ pc' = [pc EXCEPT ![p] = next]
              /\ pos' = [pos EXCEPT ![p] = IF next = "loop" THEN @ + 1 ELSE @]
    /\ UNCHANGED ivars
    /\ UNCHANGED <<indices, files, ret, outcome, excepted, injected, startdir,
                   outdir, calls>>

\* open(dest_path, 'wb').write(useful_chunk); files.append(relative_path)
WriteDoc(p) ==
    /\ pc[p] = "write"
    /\ outdir' = [outdir EXCEPT ![CurDest(p)] = Uploaded[MappingGet(CurIdx(p))]]
    /\ files' = [files EXCEPT ![p] = Append(@, RetrievedPath(CurDest(p)))]
    /\ pos' = [pos EXCEPT ![p] = @ + 1]
    /\ pc' = [pc EXCEPT ![p] = "loop"]
    /\ UNCHANGED ivars
    /\ UNCHANGED <<indices, judged, ret, outcome, excepted, injected, startdir,
                   calls>>

\* return files
ReturnFiles(p) ==
    /\ pc[p] = "loop"
    /\ pos[p] > Len(indices[p])
    /\ ret' = [ret EXCEPT ![p] = files[p]]
    /\ outcome' = [outcome EXCEPT ![p] = "returned"]
    /\ pc' = [pc EXCEPT ![p] = "done"]
    /\ UNCHANGED ivars
    /\ UNCHANGED <<indices, pos, files, judged, excepted, injected, startdir,
                   outdir, calls>>

\* the steps at which a collaborator (the embedding model, faiss, the file
\* system, the model loader, the judge) can raise
RaisingSteps == {"encode", "search", "setup", "remove", "read", "judge", "write"}

\* a collaborator raises at the current step
Raise(p) ==
    /\ pc[p] \in RaisingSteps
    /\ Except(p, TRUE)
    /\ UNCHANGED ivars
    /\ UNCHANGED <<indices, pos, files, judged, startdir, outdir, calls>>

\* one step of caller p
Step(p, answers, maxk, maxcalls) ==
    \/ Call(p, maxcalls)
    \/ EncodeQuery(p)
    \/ Search(p, maxk)
    \/ Setup(p)
    \/ LoopHead(p)
    \/ CheckDest(p)
    \/ Remove(p)
    \/ ReadDoc(p)
    \/ Judge(p, answers)
    \/ WriteDoc(p)
    \/ ReturnFiles(p)
    \/ Raise(p)

\* ------------------------------------------------------------------
\* Specifications
\* ------------------------------------------------------------------
\* one index_documents run
InitIndexRun == InitIndex /\ InitRetrieve

SpecIndex == InitIndexRun /\ [][NextIndex]_vars

\* retrieve_documents called by one caller, one call after the other
Next == Step(1, Responses, MaxK, MaxCalls)

IdleIndex ==
    /\ folder = <<>>
    /\ index_path = "none"
    /\ ipc = "done"
    /\ i = 1
    /\ docs = <<>>
    /\ filenames = <<>>
    /\ index = [built |-> FALSE, vecs |-> <<>>]
    /\ filenames_mapping = [made |-> FALSE, map |-> <<>>]
    /\ disk = [index |-> NoFile, mapping |-> NoFile]
    /\ result = "running"
    /\ failedAt = "none"
    /\ log = <<>>

Init == IdleIndex /\ InitRetrieve

Spec == Init /\ [][Next]_vars

\* two callers of retrieve_documents, their steps interleaved
NextConc == \E p \in Callers : Step(p, ShortResponses, MaxKConc, MaxCallsConc)

SpecConc == Init /\ [][NextConc]_vars

\* ------------------------------------------------------------------
\* Properties of index_documents (checked under SpecIndex)
\* ------------------------------------------------------------------
Range(f) == {f[x] : x \in DOMAIN f}

ReadsOk(e) == ReadFileWithFallback(e).ok

\* the entries read successfully, in directory-listing order
SuccessfullyRead == SelectSeq(folder, ReadsOk)

\* C1: after a successful run with N entries read successfully, the index
\* holds N vectors, the i-th being the embedding of the i-th successfully
\* read entry; the mapping (in memory and as persisted, its keys then the
\* decimal strings) has exactly the keys 0..N-1, and key i names the i-th
\* successfully read entry.  Skipped entries never shift one against the other.
C1_OrdinalsFollowReadOrder ==
    result = "returned" =>
        LET ok == SuccessfullyRead
            N == Len(ok)
        IN  /\ index.built
            /\ Len(index.vecs) = N
            /\ \A n \in 1..N :
                  index.vecs[n] = Embed(ReadFileWithFallback(ok[n]).text)
            /\ (index_path # "none") => filenames_mapping.made
            /\ filenames_mapping.made =>
                  /\ DOMAIN filenames_mapping.map = 0..(N - 1)
                  /\ \A n \in 0..(N - 1) :
                        filenames_mapping.map[n] = ok[n + 1].name
            /\ disk.mapping.complete =>
                  /\ DOMAIN disk.mapping.data = {IntToStr(n) : n \in 0..(N - 1)}
                  /\ \A n \in 0..(N - 1) :
                        disk.mapping.data[IntToStr(n)] = ok[n + 1].name

\* C1 witness: a successful run that persisted the mapping although an
\* unreadable entry was listed before a readable one
C1_Witness ==
    /\ result = "returned"
    /\ disk.mapping.complete
    /\ \E a, b \in 1..Len(folder) : a < b /\ ~ReadsOk(folder[a]) /\ ReadsOk(folder[b])

\* the place the index is to be persisted at for a given index_path
ExpectedIndexLocation(p) == IF IsDir(p) THEN "index_path/index.faiss" ELSE "index_path"

C7_FailSoftPerFileFailFastPerRun ==
    /\ ipc # "read" => i = Len(folder) + 1
    /\ Len(docs) = Len(filenames)
    /\ Len(docs) + Len(log) = i - 1
    /\ \A n \in 1..(i - 1) :
          IF ReadsOk(folder[n])
          THEN /\ folder[n].name \in Range(filenames)
               /\ folder[n].name \notin Range(log)
          ELSE /\ folder[n].name \notin Range(filenames)
               /\ folder[n].name \in Range(log)
    /\ failedAt # "none" => result = "raised" /\ ipc = "done"
    /\ result = "returned" => failedAt = "none" /\ index.built
    /\ result = "raised" => failedAt # "none" /\ i = Len(folder) + 1

\* C7 witness: an entry was skipped, a later one was read, and the run then
\* aborted on a collaborator's error
C7_Witness ==
    /\ result = "raised"
    /\ failedAt \in RunSteps
    /\ \E a, b \in 1..Len(folder) :
          /\ a < b
          /\ folder[a].name \in Range(log)
          /\ folder[b].name \in Range(filenames)

\* C8: for a file that can be opened and read, read_file_with_fallback never
\* raises; only OS-level read failures reach its caller (so index_documents
\* logs no readable regular file as unreadable).
C8_OnlyOsFailuresPropagate ==
    \A n \in 1..(i - 1) :
        folder[n].kind = "file" => folder[n].name \notin Range(log)

\* ------------------------------------------------------------------
\* Properties of retrieve_documents (checked under Spec)
\* ------------------------------------------------------------------
\* the destination of an ordinal that has a file name
DestOf(idx) == DestName(idx, MappingGet(idx))

\* the judge's answers of caller p's current call to the candidate idx
AnswersTo(p, idx) == {j[2] : j \in {x \in Range(judged[p]) : x[1] = idx}}

\* the judge accepted the candidate idx in caller p's current call
JudgeAccepted(p, idx) == \E text \in AnswersTo(p, idx) : AnalyzeChunkWithLlm(text)

\* the output paths of the ordinals in `found` that resolve to a source
\* document and that the judge accepted, in the order of `found`
RECURSIVE AcceptedPaths(_, _)
AcceptedPaths(p, found) ==
    IF found = <<>> THEN <<>>
    ELSE LET idx == Head(found)
             rest == AcceptedPaths(p, Tail(found))
         IN  IF Resolves(idx) /\ JudgeAccepted(p, idx)
             THEN <<RetrievedPath(DestOf(idx))>> \o rest
             ELSE rest

\* C3: retrieve_documents never raises to its caller: whenever an exception
\* reached its handler the call has returned the empty list, whatever had
\* been written and collected before.
C3_NeverRaisesReturnsEmpty ==
    \A p \in Callers :
        /\ outcome[p] # "raised"
        /\ excepted[p] =>
              /\ pc[p] = "done"
              /\ outcome[p] = "returned"
              /\ ret[p] = <<>>

\* C3 witness: an exception after an accepted document had been written and
\* collected; the call returned the empty list
C3_Witness ==
    \E p \in Callers :
        /\ excepted[p]
        /\ files[p] # <<>>
        /\ outdir[files[p][1].name] # Absent
        /\ outcome[p] = "returned"
        /\ ret[p] = <<>>

\* the response is, between leading and trailing whitespace, the three
\* letters y, e, s in either case
YesPattern(text) ==
    \E a \in 1..Len(text) :
        /\ Len(text) >= a + 2
        /\ text[a] \in {"y", "Y"}
        /\ text[a + 1] \in {"e", "E"}
        /\ text[a + 2] \in {"s", "S"}
        /\ \A n \in 1..Len(text) : (n < a \/ n > a + 2) => text[n] \in Whitespace

\* caller p's call has taken the candidate idx: it is about to write it, or
\* has written and collected it
Taken(p, idx) ==
    \/ pc[p] = "write" /\ CurIdx(p) = idx
    \/ /\ RetrievedPath(DestOf(idx)) \in Range(files[p])
       /\ outdir[DestOf(idx)] = Uploaded[MappingGet(idx)]

\* C4: a candidate is accepted iff the judge's response, trimmed and
\* lowercased, is exactly "yes": "Yes", " yes " and "YES" accept; "no", "",
\* "yes please" and every other response reject.
C4_AcceptedIffExactlyYes ==
    /\ \A p \in Callers :
          ~excepted[p] =>
              \A j \in Range(judged[p]) : Taken(p, j[1]) <=> YesPattern(j[2])
    /\ AnalyzeChunkWithLlm(<<"Y", "e", "s">>)
    /\ AnalyzeChunkWithLlm(<<" ", "y", "e", "s", " ">>)
    /\ AnalyzeChunkWithLlm(<<"Y", "E", "S">>)
    /\ ~AnalyzeChunkWithLlm(<<"n", "o">>)
    /\ ~AnalyzeChunkWithLlm(<<>>)
    /\ ~AnalyzeChunkWithLlm(<<"y", "e", "s", " ", "p", "l", "e", "a", "s", "e">>)

\* C4 witness: one call in which " yes " accepted a document and
\* "yes please" rejected another
C4_Witness ==
    \E p \in Callers :
        /\ pc[p] = "done"
        /\ ~excepted[p]
        /\ \E a, b \in Range(judged[p]) :
              /\ a[2] = <<" ", "y", "e", "s", " ">>
              /\ RetrievedPath(DestOf(a[1])) \in Range(ret[p])
              /\ b[2] = <<"y", "e", "s", " ", "p", "l", "e", "a", "s", "e">>
              /\ RetrievedPath(DestOf(b[1])) \notin Range(ret[p])

\* C5: a call that completes without an internal exception returns exactly
\* the output paths of the candidates that resolved to an existing source
\* document and were accepted, in search-rank order, at most k of them; and
\* the file at each returned path, named {ordinal}{extension}, holds the
\* bytes of the source document.
C5_ReturnsAcceptedCopiesInRankOrder ==
    \A p \in Callers :
        (pc[p] = "done" /\ ~excepted[p]) =>
            /\ outcome[p] = "returned"
            /\ ret[p] = AcceptedPaths(p, indices[p])
            /\ Len(ret[p]) <= Len(indices[p])
            /\ \A n \in 1..Len(ret[p]) :
                  \E idx \in Range(indices[p]) :
                      /\ Resolves(idx)
                      /\ ret[p][n] = RetrievedPath(IntToStr(idx) \o SplitExt(MappingArg[idx]))
                      /\ outdir[ret[p][n].name] = Uploaded[MappingArg[idx]]

\* C5 witness: a call returned two copies, the one of ordinal 1 ranked first,
\* while a third candidate was rejected or did not resolve
C5_Witness ==
    \E p \in Callers :
        /\ pc[p] = "done"
        /\ ~excepted[p]
        /\ Len(indices[p]) >= 3
        /\ Len(ret[p]) = 2
        /\ ret[p][1].name = <<"1">>
        /\ ret[p][2].name = <<"0", ".", "t", "x", "t">>

\* a step of caller p at the head of the loop, on an ordinal that is absent
\* from the mapping or whose document does not exist
SkipStep(p) ==
    /\ pc[p] = "loop"
    /\ pos[p] <= Len(indices[p])
    /\ ~Resolves(CurIdx(p))
    /\ <<pc[p], pos[p]>> # <<pc[p], pos[p]>>'

\* C6: an ordinal absent from the mapping, or whose file name resolves to no
\* existing source document, is skipped: the judge is not invoked, nothing is
\* written or removed, and the loop goes on with the next ordinal; a call in
\* which no ordinal resolves (a search of an empty index included) returns
\* the empty list without raising.
C6_UnresolvedOrdinalsAreSkipped ==
    /\ [](\A p \in Callers :
            /\ \A j \in Range(judged[p]) : Resolves(j[1])
            /\ (pc[p] = "done" /\ ~excepted[p]) =>
                  \A idx \in Range(indices[p]) :
                      Resolves(idx) => AnswersTo(p, idx) # {}
            /\ (pc[p] = "done" /\ \A idx \in Range(indices[p]) : ~Resolves(idx)) =>
                  ret[p] = <<>> /\ outcome[p] = "returned")
    /\ [][\A p \in Callers :
            SkipStep(p) =>
                /\ outdir' = outdir
                /\ judged' = judged
                /\ files' = files
                /\ pc'[p] = "loop"
                /\ pos'[p] = pos[p] + 1]_vars

\* C6 witness: a call whose first ordinal did not resolve went on to judge
\* and return a later one
C6_Witness ==
    \E p \in Callers :
        /\ pc[p] = "done"
        /\ ~excepted[p]
        /\ Len(indices[p]) >= 2
        /\ ~Resolves(indices[p][1])
        /\ ret[p] # <<>>

\* the candidates of caller p's current call that the judge rejected
Rejected(p) == {j[1] : j \in {x \in Range(judged[p]) : ~AnalyzeChunkWithLlm(x[2])}}

\* C9 (as claimed): for a candidate the judge rejects, the call leaves the
\* output directory unchanged for that ordinal: nothing is written or
\* collected, and a file already present at the destination is not removed.
C9_RejectedLeavesDestinationUntouched ==
    \A p \in Callers :
        \A idx \in Rejected(p) :
            /\ RetrievedPath(DestOf(idx)) \notin Range(files[p])
            /\ outdir[DestOf(idx)] = startdir[p][DestOf(idx)]

\* C9 (amended): for a candidate the judge rejects, the call writes nothing
\* and collects nothing, but a file already present at the destination has
\* been removed before the judge was asked: after the rejection no file is
\* left at {ordinal}{extension}.
C9_RejectedDestinationIsRemoved ==
    \A p \in Callers :
        \A idx \in Rejected(p) :
            /\ RetrievedPath(DestOf(idx)) \notin Range(files[p])
            /\ RetrievedPath(DestOf(idx)) \notin Range(ret[p])
            /\ outdir[DestOf(idx)] = Absent

\* C9 witness: a completed call rejected a candidate whose destination held a
\* copy from an earlier call; the copy is gone
C9_Witness ==
    \E p \in Callers :
        /\ pc[p] = "done"
        /\ ~excepted[p]
        /\ \E idx \in Rejected(p) :
              /\ startdir[p][DestOf(idx)] # Absent
              /\ outdir[DestOf(idx)] = Absent

\* ------------------------------------------------------------------
\* Concurrent callers (checked under SpecConc)
\* ------------------------------------------------------------------
\* C10: when two calls run concurrently against the same output directory,
\* the only interference is last-write-wins on a shared destination: a call
\* in which no collaborator raised does not fail, and returns exactly the
\* paths of the documents its own judge accepted.
C10_ConcurrentCallsOnlyLastWriteWins ==
    \A p \in Callers :
        (pc[p] = "done" /\ ~injected[p]) =>
            /\ ~excepted[p]
            /\ ret[p] = AcceptedPaths(p, indices[p])

====
